---- MODULE Spec2Model ----
(***************************************************************************)
(* Session state machine of BaseLauncher (src/src/common/launcher.ts).     *)
(*                                                                         *)
(* doRun is an async function, so it is modelled as a process whose        *)
(* position (pc) is the await it is suspended at.  The promises it awaits  *)
(* are settled by the collaborators (PythonInstallation, the message       *)
(* connection, the worker); every settlement and every continuation is one *)
(* action.                                                                 *)
(*                                                                         *)
(* doRun has no guard: run, debug and startRepl can be called again on the *)
(* same launcher.  Every call is a new invocation with its own locals (the *)
(* boot promises, messageConnection, apiService, runRequest), while        *)
(* this.state is overwritten and this.exitPromise stays the one the        *)
(* constructor made.  The caller starts the launcher again only when no    *)
(* session is active on it (specification, section 3), so one invocation   *)
(* is alive at a time and the variables of the locals hold those of the    *)
(* latest one.  trace, requests and drivers record the calls of the latest *)
(* invocation; exitCalls, closeCount, termCalls and runCalls count over    *)
(* the life of the launcher.                                               *)
(*                                                                         *)
(* terminateConnection, createMessageConnection and createSyncConnection   *)
(* are abstract in BaseLauncher, and the message connection and            *)
(* PythonInstallation are imported: their behaviour is taken from the      *)
(* specification (sections 4.1, 4.2, 4.4).                                 *)
(***************************************************************************)
EXTENDS Integers, Sequences, FiniteSets, TLC

\* ------------------------------------------------------------------ bounds
\* How many times the environment calls terminate() on one launcher.
MaxTerminate == 2

\* How many times the environment calls run, debug or startRepl on one
\* launcher.
MaxRuns == 2

\* ------------------------------------------------------------------ inputs
Programs    == {"app.py", "lib.py"}
Terminators == {"(Pdb)"}
DebugPortSet == {"debugPorts"}
Ports       == {"port1", "port2"}
ExitCodes   == {0, 1}
WorkerReasons == {"WorkerError", "ProtocolViolation"}

Undefined == "undefined"

\* ---------------------------------------------------------------- promises
\* A promise is pending, fulfilled with a code, or rejected with a reason.
NoPromise    == [status |-> "none",      code |-> -1, reason |-> "none"]
Pending      == [status |-> "pending",   code |-> -1, reason |-> "none"]
Fulfilled(c) == [status |-> "fulfilled", code |-> c,  reason |-> "none"]
Rejected(r)  == [status |-> "rejected",  code |-> -1, reason |-> r]

Settled(p) == p.status \in {"fulfilled", "rejected"}

\* resolve(value) / reject(reason) of a JavaScript promise: the first call
\* settles it, every later call is ignored.
Resolve(p, c) == IF p.status = "pending" THEN Fulfilled(c) ELSE p
Reject(p, r)  == IF p.status = "pending" THEN Rejected(r) ELSE p

\* this.state before the first doRun.
NoState == [mode |-> Undefined, pty |-> Undefined, program |-> Undefined]

\* One recorded call: the operation and its distinguishing argument.
Ev(op, a) == [op |-> op, arg |-> a]

VARIABLES
    state,        \* this.state: undefined, or [mode, pty, program]
    debugPorts,   \* doRun's debugPorts parameter
    terminator,   \* doRun's terminator parameter
    pc,           \* where the latest doRun is: idle, boot, init, sync, run, failed
    doRunResult,  \* the promise doRun returned to its caller
    config,       \* PythonInstallation.getConfig()
    wasmBytes,    \* PythonInstallation.sharedWasmBytes()
    connection,   \* this.createMessageConnection(context)
    allResult,    \* Promise.all([...]) of the three above
    chan,         \* the launcher's message channel (the one created last):
                  \* none, created, listening, closed
    initReq,      \* sendRequest('initialize', ...)
    syncConn,     \* this.createSyncConnection(messageConnection)
    port,         \* the port handle createSyncConnection returned
    drivers,      \* the character device drivers registered on the
                  \* apiService of the latest doRun
    requests,     \* the requests passed to sendRequest of the
                  \* messageConnection of the latest doRun, in order
    runReq,       \* runRequest
    chain,        \* runRequest.then().catch().finally(): none, attached, handled, done
    exitPromise,  \* this.exitPromise
    exitCalls,    \* calls of exitResolveCallback / exitRejectCallback
    terminal,     \* this.terminal
    runCalls,     \* calls of doRun
    runSends,     \* run requests passed to sendRequest, over all doRun calls
    termWrites,   \* calls of terminal.sendText
    termCalls,    \* calls of terminate()
    termResult,   \* how the last terminate() call ended: none, ok, error
    closeCount,   \* times the channel was actually closed
    trace         \* the calls made on the collaborators since the latest
                  \* doRun began, in order

launcherVars == <<state, debugPorts, terminator, pc, doRunResult, config, wasmBytes,
                  connection, allResult, chan, initReq, syncConn, port, drivers,
                  requests, runReq, chain, exitPromise, exitCalls, terminal, runCalls, runSends,
                  termWrites, termCalls, termResult, closeCount, trace>>

\* ----------------------------------------------- the session front end
\* The state of the extension module (src/unnamed/part_000): preloadPython,
\* one call of resolveDebugConfiguration and one call of
\* createDebugAdapterDescriptor.
VARIABLES
    installed,      \* the extensions extensions.getExtension can find
    prePc,          \* where preloadPython is: none, activating, loading, done
    preloadPromise, \* the promise preloadPython returned
    activation,     \* remoteHub.activate()
    apiShape,       \* what activate() resolved with
    load,           \* remoteHubApi.loadWorkspaceContents(uri)
    logged,         \* calls of console.log(error)
    readFiles,      \* calls of workspace.fs.readFile
    rPc,            \* resolveDebugConfiguration: none, awaitPreload, message, returned
    rInput,         \* the configuration it was called with
    rEditor,        \* window.activeTextEditor when it read it
    rConfig,        \* the configuration object as it is now
    rResult,        \* what it returned: none, undefined, config
    messages,       \* calls of window.showInformationMessage
    fPc             \* createDebugAdapterDescriptor: none, awaitPreload, returned

extVars == <<installed, prePc, preloadPromise, activation, apiShape, load,
             logged, readFiles, rPc, rInput, rEditor, rConfig, rResult,
             messages, fPc>>

vars == <<launcherVars, extVars>>

\* A debug configuration; a missing attribute is undefined.
Configuration(type, request, name, program, stopOnEntry) ==
    [type |-> type, request |-> request, name |-> name, program |-> program,
     stopOnEntry |-> stopOnEntry]

NoConfiguration ==
    Configuration(Undefined, Undefined, Undefined, Undefined, Undefined)

\* The state after the constructor: the exit promise exists and is pending,
\* its two callbacks are captured, nothing else is set; the extension has
\* not been activated.
Init ==
    /\ state = NoState
    /\ debugPorts = Undefined
    /\ terminator = Undefined
    /\ pc = "idle"
    /\ doRunResult = NoPromise
    /\ config = NoPromise
    /\ wasmBytes = NoPromise
    /\ connection = NoPromise
    /\ allResult = NoPromise
    /\ chan = "none"
    /\ initReq = NoPromise
    /\ syncConn = NoPromise
    /\ port = Undefined
    /\ drivers = <<>>
    /\ requests = <<>>
    /\ runReq = NoPromise
    /\ chain = "none"
    /\ exitPromise = Pending
    /\ exitCalls = 0
    /\ terminal = Undefined
    /\ runCalls = 0
    /\ runSends = 0
    /\ termWrites = 0
    /\ termCalls = 0
    /\ termResult = "none"
    /\ closeCount = 0
    /\ trace = <<>>
    /\ installed = {}
    /\ prePc = "none"
    /\ preloadPromise = NoPromise
    /\ activation = NoPromise
    /\ apiShape = Undefined
    /\ load = NoPromise
    /\ logged = 0
    /\ readFiles = 0
    /\ rPc = "none"
    /\ rInput = NoConfiguration
    /\ rEditor = Undefined
    /\ rConfig = NoConfiguration
    /\ rResult = "none"
    /\ messages = 0
    /\ fPc = "none"

\* ------------------------------------------------------- message connection
\* sendRequest on a channel: the request is in flight while the channel is
\* open; on a closed channel it fails with TransportError (spec 4.1).
SendRequest(ch) ==
    IF ch = "listening" THEN Pending ELSE Rejected("TransportError")

\* listen(): starts pumping messages; a closed channel stays closed.
Listen(ch) == IF ch = "created" THEN "listening" ELSE ch

ChannelOpen(ch) == ch \in {"created", "listening"}

\* A request that was in flight when the channel closed fails with
\* TransportError; a settled one keeps its outcome (spec 4.1, 7).
FailPending(p) ==
    IF p.status = "pending" THEN Rejected("TransportError") ELSE p

\* terminateConnection(): closes the channel.  Closing is idempotent: it has
\* an effect only on an open channel (spec 3).  tr is the trace so far.
TerminateConnection(tr) ==
    /\ trace' = Append(tr, Ev("terminateConnection", ""))
    /\ chan' = IF ChannelOpen(chan) THEN "closed" ELSE chan
    /\ closeCount' = IF ChannelOpen(chan) THEN closeCount + 1 ELSE closeCount
    /\ initReq' = IF ChannelOpen(chan) THEN FailPending(initReq) ELSE initReq
    /\ runReq' = IF ChannelOpen(chan) THEN FailPending(runReq) ELSE runReq

\* Mutant of PromiseAll: it behaves like Promise.any and fulfils as soon as
\* one of the three is fulfilled.
PromiseAll_Any(all, a, b, c, r) ==
    IF all.status # "pending" THEN all
    ELSE IF r # "none" THEN Rejected(r)
    ELSE IF a.status = "fulfilled" \/ b.status = "fulfilled" \/ c.status = "fulfilled"
         THEN Fulfilled(0)
    ELSE all

\* Promise.all over the three boot promises: rejects with the first
\* rejection, fulfils once all three are fulfilled.  r is the reason of the
\* rejection that just happened, or "none".
PromiseAll(all, a, b, c, r) ==
    IF all.status # "pending" THEN all
    ELSE IF r # "none" THEN Rejected(r)
    ELSE IF a.status = "fulfilled" /\ b.status = "fulfilled" /\ c.status = "fulfilled"
         THEN Fulfilled(0)
    ELSE all

\* ------------------------------------------------------------------- doRun
\* Line 123-124: a new invocation: store the state and start the three boot
\* tasks together.  There is no guard; nothing of this invocation exists yet
\* but its parameters and the three promises.  The launcher's own fields
\* (exitPromise, its callbacks, terminal) and its channel are left as they
\* are.
DoRun(mode, program, dp, term) ==
    /\ runCalls < MaxRuns
    /\ runCalls' = runCalls + 1
    /\ state' = [mode |-> mode, pty |-> "pty", program |-> program]
    /\ debugPorts' = dp
    /\ terminator' = term
    /\ config' = Pending
    /\ wasmBytes' = Pending
    /\ connection' = Pending
    /\ allResult' = Pending
    /\ doRunResult' = Pending
    /\ initReq' = NoPromise
    /\ syncConn' = NoPromise
    /\ port' = Undefined
    /\ drivers' = <<>>
    /\ requests' = <<>>
    /\ runReq' = NoPromise
    /\ chain' = "none"
    /\ trace' = <<Ev("getConfig", ""), Ev("sharedWasmBytes", ""),
                  Ev("createMessageConnection", "")>>
    /\ pc' = "boot"
    /\ UNCHANGED <<chan, exitPromise, exitCalls, terminal, runSends,
                   termWrites, termCalls, termResult, closeCount>>
    /\ UNCHANGED extVars

Run == \E program \in Programs : DoRun("run", program, Undefined, Undefined)

Debug ==
    \E program \in Programs, dp \in DebugPortSet, term \in Terminators :
        DoRun("debug", program, dp, term)

StartRepl == DoRun("repl", Undefined, Undefined, Undefined)

\* --------------------------------------------------------- the boot tasks
BootFrame == <<state, debugPorts, terminator, pc, doRunResult, initReq,
               syncConn, port, drivers, requests, runReq, chain, exitPromise,
               exitCalls, terminal, runCalls, runSends, termWrites, termCalls, termResult,
               closeCount, trace>>

GetConfigResolve ==
    /\ config.status = "pending"
    /\ config' = Fulfilled(0)
    /\ allResult' = PromiseAll(allResult, config', wasmBytes, connection, "none")
    /\ UNCHANGED <<wasmBytes, connection, chan>>
    /\ UNCHANGED BootFrame
    /\ UNCHANGED extVars

GetConfigReject ==
    /\ config.status = "pending"
    /\ config' = Rejected("BootError")
    /\ allResult' = PromiseAll(allResult, config', wasmBytes, connection, "BootError")
    /\ UNCHANGED <<wasmBytes, connection, chan>>
    /\ UNCHANGED BootFrame
    /\ UNCHANGED extVars

SharedWasmBytesResolve ==
    /\ wasmBytes.status = "pending"
    /\ wasmBytes' = Fulfilled(0)
    /\ allResult' = PromiseAll(allResult, config, wasmBytes', connection, "none")
    /\ UNCHANGED <<config, connection, chan>>
    /\ UNCHANGED BootFrame
    /\ UNCHANGED extVars

SharedWasmBytesReject ==
    /\ wasmBytes.status = "pending"
    /\ wasmBytes' = Rejected("BootError")
    /\ allResult' = PromiseAll(allResult, config, wasmBytes', connection, "BootError")
    /\ UNCHANGED <<config, connection, chan>>
    /\ UNCHANGED BootFrame
    /\ UNCHANGED extVars

\* The channel exists once createMessageConnection has resolved.
CreateMessageConnectionResolve ==
    /\ connection.status = "pending"
    /\ connection' = Fulfilled(0)
    /\ chan' = "created"
    /\ allResult' = PromiseAll(allResult, config, wasmBytes, connection', "none")
    /\ UNCHANGED <<config, wasmBytes>>
    /\ UNCHANGED BootFrame
    /\ UNCHANGED extVars

CreateMessageConnectionReject ==
    /\ connection.status = "pending"
    /\ connection' = Rejected("ConnectError")
    /\ allResult' = PromiseAll(allResult, config, wasmBytes, connection', "ConnectError")
    /\ UNCHANGED <<config, wasmBytes, chan>>
    /\ UNCHANGED BootFrame
    /\ UNCHANGED extVars

\* ------------------------------------------------- doRun after Promise.all
\* A request as passed to sendRequest: its name, its parameters (undefined
\* when the request has no such parameter) and its transfer list.
Request(name, syncPort, file, uri, term, transfer) ==
    [name |-> name, syncPort |-> syncPort, file |-> file, uri |-> uri,
     terminator |-> term, transfer |-> transfer]

InitializeRequest ==
    Request("initialize", Undefined, Undefined, Undefined, Undefined, <<>>)

\* debugPorts.uri
DebugUri(dp) == IF dp = Undefined THEN Undefined ELSE "uri-of-debugPorts"

\* Lines 126-135: Promise.all fulfilled: listen, subscribe to pathMappings and
\* send initialize.
DoRunBooted ==
    /\ pc = "boot"
    /\ allResult.status = "fulfilled"
    /\ chan' = Listen(chan)
    /\ trace' = trace \o <<Ev("listen", ""), Ev("onNotification", "pathMappings"),
                           Ev("sendRequest", "initialize")>>
    /\ requests' = Append(requests, InitializeRequest)
    /\ initReq' = SendRequest(chan')
    /\ pc' = "init"
    /\ UNCHANGED <<state, debugPorts, terminator, doRunResult, config,
                   wasmBytes, connection, allResult, syncConn, port, drivers,
                   runReq, chain, exitPromise, exitCalls, terminal, runCalls, runSends,
                   termWrites, termCalls, termResult, closeCount>>
    /\ UNCHANGED extVars

\* Line 124: Promise.all rejected: the await throws and doRun's own promise
\* rejects with that reason.
DoRunBootFailed ==
    /\ pc = "boot"
    /\ allResult.status = "rejected"
    /\ doRunResult' = Rejected(allResult.reason)
    /\ pc' = "failed"
    /\ UNCHANGED <<state, debugPorts, terminator, config, wasmBytes,
                   connection, allResult, chan, initReq, syncConn, port,
                   drivers, requests, runReq, chain, exitPromise, exitCalls,
                   terminal, runCalls, runSends, termWrites, termCalls, termResult, closeCount,
                   trace>>
    /\ UNCHANGED extVars

\* Mutant of DoRunInitialized: the initialize request is not awaited, so doRun
\* goes on while it is still in flight.
DoRunInitialized_NoAwait ==
    /\ pc = "init"
    /\ initReq.status \in {"pending", "fulfilled"}
    /\ syncConn' = Pending
    /\ trace' = Append(trace, Ev("createSyncConnection", ""))
    /\ pc' = "sync"
    /\ UNCHANGED <<state, debugPorts, terminator, doRunResult, config,
                   wasmBytes, connection, allResult, chan, initReq, port,
                   drivers, requests, runReq, chain, exitPromise, exitCalls,
                   terminal, runCalls, runSends, termWrites, termCalls, termResult, closeCount>>
    /\ UNCHANGED extVars

\* Line 137: initialize acknowledged: ask for the sync connection.
DoRunInitialized ==
    /\ pc = "init"
    /\ initReq.status = "fulfilled"
    /\ syncConn' = Pending
    /\ trace' = Append(trace, Ev("createSyncConnection", ""))
    /\ pc' = "sync"
    /\ UNCHANGED <<state, debugPorts, terminator, doRunResult, config,
                   wasmBytes, connection, allResult, chan, initReq, port,
                   drivers, requests, runReq, chain, exitPromise, exitCalls,
                   terminal, runCalls, runSends, termWrites, termCalls, termResult, closeCount>>
    /\ UNCHANGED extVars

\* Line 131: the initialize request rejected: the await throws.
DoRunInitializeFailed ==
    /\ pc = "init"
    /\ initReq.status = "rejected"
    /\ doRunResult' = Rejected(initReq.reason)
    /\ pc' = "failed"
    /\ UNCHANGED <<state, debugPorts, terminator, config, wasmBytes,
                   connection, allResult, chan, initReq, syncConn, port,
                   drivers, requests, runReq, chain, exitPromise, exitCalls,
                   terminal, runCalls, runSends, termWrites, termCalls, termResult, closeCount,
                   trace>>
    /\ UNCHANGED extVars

\* Mutant of RegisterDrivers: the debug port is registered as primary too.
RegisterDrivers_AllPrimary(mode, pty, dp) ==
    <<[dev |-> pty, isPrimary |-> TRUE]>>
        \o (IF mode = "debug" THEN <<[dev |-> dp, isPrimary |-> TRUE]>> ELSE <<>>)

\* Lines 144-147: the drivers registered on the api service, in order.
RegisterDrivers(mode, pty, dp) ==
    <<[dev |-> pty, isPrimary |-> TRUE]>>
        \o (IF mode = "debug" THEN <<[dev |-> dp, isPrimary |-> FALSE]>> ELSE <<>>)

\* Mutant of WireCalls: signalReady is called right after the console is
\* registered, before the debug port is.
WireCalls_SignalEarly(mode, pty, dp) ==
    <<Ev("registerCharacterDeviceDriver", pty), Ev("signalReady", "")>>
        \o (IF mode = "debug"
            THEN <<Ev("registerCharacterDeviceDriver", dp)>> ELSE <<>>)

\* Mutant of WireCalls: signalReady is called after each registration.
WireCalls_SignalPerDriver(mode, pty, dp) ==
    <<Ev("registerCharacterDeviceDriver", pty), Ev("signalReady", "")>>
        \o (IF mode = "debug"
            THEN <<Ev("registerCharacterDeviceDriver", dp), Ev("signalReady", "")>>
            ELSE <<>>)

\* Lines 144-148: the calls made on the api service, in order: every
\* registration, then signalReady.
WireCalls(mode, pty, dp) ==
    LET regs == RegisterDrivers(mode, pty, dp) IN
    [i \in 1..Len(regs) |-> Ev("registerCharacterDeviceDriver", regs[i].dev)]
        \o <<Ev("signalReady", "")>>

\* Mutant of RunRequest: the debug branch is missing, so a debug session is
\* dispatched like a REPL.
RunRequest_NoDebugBranch(mode, p, program, dp, term) ==
    IF mode = "run"
    THEN Request("executeFile", p, program, Undefined, Undefined, <<p>>)
    ELSE Request("runRepl", p, Undefined, Undefined, Undefined, <<p>>)

\* Lines 150-154: the run request of the mode.
RunRequest(mode, p, program, dp, term) ==
    IF mode = "run"
    THEN Request("executeFile", p, program, Undefined, Undefined, <<p>>)
    ELSE IF mode = "debug"
         THEN Request("debugFile", p, program, DebugUri(dp), term, <<p>>)
         ELSE Request("runRepl", p, Undefined, Undefined, Undefined, <<p>>)

\* Mutant of RunRequests: the mode dispatch falls through, so a debug session
\* sends runRepl after debugFile, with the same port.
RunRequests_FallThrough(mode, p, program, dp, term) ==
    IF mode = "debug"
    THEN <<RunRequest("debug", p, program, dp, term),
           RunRequest("repl", p, program, dp, term)>>
    ELSE <<RunRequest(mode, p, program, dp, term)>>

\* Lines 150-154: the requests sent once the sync connection is wired.
RunRequests(mode, p, program, dp, term) ==
    <<RunRequest(mode, p, program, dp, term)>>

\* Lines 138-160: the sync connection resolved: register the drivers, signal
\* ready, send the run request, attach then/catch/finally and return.
DoRunWired ==
    /\ pc = "sync"
    /\ syncConn.status = "fulfilled"
    /\ LET rs == RunRequests(state.mode, port, state.program, debugPorts, terminator) IN
        /\ drivers' = drivers \o RegisterDrivers(state.mode, state.pty, debugPorts)
        /\ requests' = requests \o rs
        /\ runSends' = runSends + Len(rs)
        /\ trace' = trace \o WireCalls(state.mode, state.pty, debugPorts)
                          \o [i \in 1..Len(rs) |-> Ev("sendRequest", rs[i].name)]
    /\ runReq' = SendRequest(chan)
    /\ chain' = "attached"
    /\ doRunResult' = Fulfilled(0)
    /\ pc' = "run"
    /\ UNCHANGED <<state, debugPorts, terminator, config, wasmBytes,
                   connection, allResult, chan, initReq, syncConn, port,
                   exitPromise, exitCalls, terminal, runCalls, termWrites,
                   termCalls, termResult, closeCount>>
    /\ UNCHANGED extVars

\* Line 137: createSyncConnection rejected: the await throws.
DoRunSyncFailed ==
    /\ pc = "sync"
    /\ syncConn.status = "rejected"
    /\ doRunResult' = Rejected(syncConn.reason)
    /\ pc' = "failed"
    /\ UNCHANGED <<state, debugPorts, terminator, config, wasmBytes,
                   connection, allResult, chan, initReq, syncConn, port,
                   drivers, requests, runReq, chain, exitPromise, exitCalls,
                   terminal, runCalls, runSends, termWrites, termCalls, termResult, closeCount,
                   trace>>
    /\ UNCHANGED extVars

\* ------------------------------------------- createSyncConnection settles
SyncFrame == <<state, debugPorts, terminator, pc, doRunResult, config,
               wasmBytes, connection, allResult, chan, initReq, drivers,
               requests, runReq, chain, exitPromise, exitCalls, terminal, runCalls, runSends,
               termWrites, termCalls, termResult, closeCount, trace>>

CreateSyncConnectionResolve ==
    /\ syncConn.status = "pending"
    /\ \E p \in Ports : port' = p
    /\ syncConn' = Fulfilled(0)
    /\ UNCHANGED SyncFrame
    /\ UNCHANGED extVars

CreateSyncConnectionReject ==
    /\ syncConn.status = "pending"
    /\ syncConn' = Rejected("SyncError")
    /\ UNCHANGED <<port>>
    /\ UNCHANGED SyncFrame
    /\ UNCHANGED extVars

\* ------------------------------------------------------------- the worker
WorkerFrame == <<state, debugPorts, terminator, pc, doRunResult, config,
                 wasmBytes, connection, allResult, chan, syncConn, port,
                 drivers, requests, chain, exitPromise, exitCalls, terminal, runCalls, runSends,
                 termWrites, termCalls, termResult, closeCount, trace>>

\* The worker acknowledges initialize.
InitializeAck ==
    /\ chan = "listening"
    /\ initReq.status = "pending"
    /\ initReq' = Fulfilled(0)
    /\ UNCHANGED <<runReq>>
    /\ UNCHANGED WorkerFrame
    /\ UNCHANGED extVars

\* The worker reports a failure of initialize.
InitializeFail ==
    /\ chan = "listening"
    /\ initReq.status = "pending"
    /\ \E r \in WorkerReasons : initReq' = Rejected(r)
    /\ UNCHANGED <<runReq>>
    /\ UNCHANGED WorkerFrame
    /\ UNCHANGED extVars

\* The worker answers the run request with an exit code.
RunRequestResolve ==
    /\ chan = "listening"
    /\ runReq.status = "pending"
    /\ \E c \in ExitCodes : runReq' = Fulfilled(c)
    /\ UNCHANGED <<initReq>>
    /\ UNCHANGED WorkerFrame
    /\ UNCHANGED extVars

\* The worker reports a failure of the run request.
RunRequestReject ==
    /\ chan = "listening"
    /\ runReq.status = "pending"
    /\ \E r \in WorkerReasons : runReq' = Rejected(r)
    /\ UNCHANGED <<initReq>>
    /\ UNCHANGED WorkerFrame
    /\ UNCHANGED extVars

\* --------------------------------- runRequest.then().catch().finally()
ChainFrame == <<state, debugPorts, terminator, pc, doRunResult, config,
                wasmBytes, connection, allResult, syncConn, port, drivers,
                requests, terminal, runCalls, runSends, termWrites, termCalls, termResult>>

\* Mutant of RunRequestThen: the then handler tears the connection down
\* itself before it resolves the exit promise.
RunRequestThen_TeardownFirst ==
    /\ chain = "attached"
    /\ runReq.status = "fulfilled"
    /\ exitPromise' = Resolve(exitPromise, runReq.code)
    /\ exitCalls' = exitCalls + 1
    /\ trace' = trace \o <<Ev("terminateConnection", ""), Ev("exitResolveCallback", "")>>
    /\ chan' = IF ChannelOpen(chan) THEN "closed" ELSE chan
    /\ closeCount' = IF ChannelOpen(chan) THEN closeCount + 1 ELSE closeCount
    /\ chain' = "handled"
    /\ UNCHANGED <<initReq, runReq>>
    /\ UNCHANGED ChainFrame
    /\ UNCHANGED extVars

\* Line 157: then((rval) => exitResolveCallback(rval)).
RunRequestThen ==
    /\ chain = "attached"
    /\ runReq.status = "fulfilled"
    /\ exitPromise' = Resolve(exitPromise, runReq.code)
    /\ exitCalls' = exitCalls + 1
    /\ trace' = Append(trace, Ev("exitResolveCallback", ""))
    /\ chain' = "handled"
    /\ UNCHANGED <<chan, initReq, runReq, closeCount>>
    /\ UNCHANGED ChainFrame
    /\ UNCHANGED extVars

\* Line 158: catch((reason) => exitRejectCallback(reason)).
RunRequestCatch ==
    /\ chain = "attached"
    /\ runReq.status = "rejected"
    /\ exitPromise' = Reject(exitPromise, runReq.reason)
    /\ exitCalls' = exitCalls + 1
    /\ trace' = Append(trace, Ev("exitRejectCallback", ""))
    /\ chain' = "handled"
    /\ UNCHANGED <<chan, initReq, runReq, closeCount>>
    /\ UNCHANGED ChainFrame
    /\ UNCHANGED extVars

\* Line 159: finally(() => terminateConnection()).
RunRequestFinally ==
    /\ chain = "handled"
    /\ TerminateConnection(trace)
    /\ chain' = "done"
    /\ UNCHANGED <<exitPromise, exitCalls>>
    /\ UNCHANGED ChainFrame
    /\ UNCHANGED extVars

\* Mutant of Terminate: without a terminal it returns early and never closes
\* the connection.
Terminate_SkipsClose ==
    /\ termCalls < MaxTerminate
    /\ termCalls' = termCalls + 1
    /\ IF terminal # Undefined
       THEN /\ termWrites' = termWrites + 1
            /\ TerminateConnection(Append(trace, Ev("terminate", "")))
       ELSE /\ trace' = Append(trace, Ev("terminate", ""))
            /\ UNCHANGED <<termWrites, chan, closeCount, initReq, runReq>>
    /\ termResult' = "ok"
    /\ UNCHANGED <<state, debugPorts, terminator, pc, doRunResult, config,
                   wasmBytes, connection, allResult, syncConn, port, drivers,
                   requests, chain, exitPromise, exitCalls, terminal, runCalls, runSends>>
    /\ UNCHANGED extVars

\* Mutant of Terminate: it also rejects the exit promise itself.
Terminate_SettlesExit ==
    /\ termCalls < MaxTerminate
    /\ termCalls' = termCalls + 1
    /\ termWrites' = IF terminal # Undefined THEN termWrites + 1 ELSE termWrites
    /\ TerminateConnection(Append(trace, Ev("terminate", "")))
    /\ exitPromise' = Reject(exitPromise, "Terminated")
    /\ exitCalls' = exitCalls + 1
    /\ termResult' = "ok"
    /\ UNCHANGED <<state, debugPorts, terminator, pc, doRunResult, config,
                   wasmBytes, connection, allResult, syncConn, port, drivers,
                   requests, chain, terminal, runCalls, runSends>>
    /\ UNCHANGED extVars

\* Mutant of Terminate: the terminal is written to without the undefined
\* check, which throws when there is none, before the connection is closed.
Terminate_NoTerminalCheck ==
    /\ termCalls < MaxTerminate
    /\ termCalls' = termCalls + 1
    /\ IF terminal # Undefined
       THEN /\ termWrites' = termWrites + 1
            /\ TerminateConnection(Append(trace, Ev("terminate", "")))
            /\ termResult' = "ok"
       ELSE /\ trace' = Append(trace, Ev("terminate", ""))
            /\ termResult' = "error"
            /\ UNCHANGED <<termWrites, chan, closeCount, initReq, runReq>>
    /\ UNCHANGED <<state, debugPorts, terminator, pc, doRunResult, config,
                   wasmBytes, connection, allResult, syncConn, port, drivers,
                   requests, chain, exitPromise, exitCalls, terminal, runCalls, runSends>>
    /\ UNCHANGED extVars

\* ---------------------------------------------------------------- terminate
\* Lines 171-176: write to the terminal if there is one, then close the
\* connection.  this.terminal is never assigned, so it is always undefined.
Terminate ==
    /\ termCalls < MaxTerminate
    /\ termCalls' = termCalls + 1
    /\ termWrites' = IF terminal # Undefined THEN termWrites + 1 ELSE termWrites
    /\ TerminateConnection(Append(trace, Ev("terminate", "")))
    /\ termResult' = "ok"
    /\ UNCHANGED <<state, debugPorts, terminator, pc, doRunResult, config,
                   wasmBytes, connection, allResult, syncConn, port, drivers,
                   requests, chain, exitPromise, exitCalls, terminal, runCalls, runSends>>
    /\ UNCHANGED extVars

\* The caller's ownership discipline (specification, section 3): the
\* launcher is started when no session is active on it, that is before its
\* first doRun, after a doRun that threw, or after the run request settled
\* and the teardown ran.
NoSessionActive ==
    \/ pc = "idle"
    \/ pc = "failed"
    \/ pc = "run" /\ chain = "done"

Next ==
    \/ (NoSessionActive /\ Run)
    \/ (NoSessionActive /\ Debug)
    \/ (NoSessionActive /\ StartRepl)
    \/ GetConfigResolve
    \/ GetConfigReject
    \/ SharedWasmBytesResolve
    \/ SharedWasmBytesReject
    \/ CreateMessageConnectionResolve
    \/ CreateMessageConnectionReject
    \/ DoRunBooted
    \/ DoRunBootFailed
    \/ DoRunInitialized
    \/ DoRunInitializeFailed
    \/ CreateSyncConnectionResolve
    \/ CreateSyncConnectionReject
    \/ DoRunWired
    \/ DoRunSyncFailed
    \/ InitializeAck
    \/ InitializeFail
    \/ RunRequestResolve
    \/ RunRequestReject
    \/ RunRequestThen
    \/ RunRequestCatch
    \/ RunRequestFinally
    \/ Terminate

Spec == Init /\ [][Next]_vars

\* ========================================== the extension (session front end)
\* The extension ids getRemoteHubExtension looks for, in this order.
ExtensionIds ==
    <<"ms-vscode.remote-repositories", "GitHub.remoteHub", "GitHub.remoteHub-insiders">>

ExtensionIdSet == {ExtensionIds[i] : i \in DOMAIN ExtensionIds}

\* What activate() can resolve with: no exports at all, an api without
\* loadWorkspaceContents, an api with it.
ApiShapes == {Undefined, "apiWithoutLoad", "apiWithLoad"}

\* The inputs of resolveDebugConfiguration.
ConfigTypes    == {Undefined, "python-web-wasm"}
ConfigRequests == {Undefined, "launch"}
ConfigNames    == {Undefined, "Launch"}
ConfigPrograms == {Undefined, "", "app.py"}
Editors        == {"none", "python", "markdown"}

\* JavaScript truthiness of an optional string: undefined and "" are falsy.
Falsy(x) == x \in {Undefined, ""}

\* getRemoteHubExtension: the first of the three ids that is installed, or
\* undefined.
GetRemoteHubExtension(inst) ==
    IF ExtensionIds[1] \in inst THEN ExtensionIds[1]
    ELSE IF ExtensionIds[2] \in inst THEN ExtensionIds[2]
    ELSE IF ExtensionIds[3] \in inst THEN ExtensionIds[3]
    ELSE Undefined

ExtLauncherFrame == launcherVars

\* activate(context): preloadPython() runs up to its first await.  Without a
\* remote hub extension it returns at once.
Activate ==
    /\ prePc = "none"
    /\ \E inst \in SUBSET ExtensionIdSet :
        /\ installed' = inst
        /\ IF GetRemoteHubExtension(inst) = Undefined
           THEN /\ preloadPromise' = Fulfilled(0)
                /\ prePc' = "done"
                /\ UNCHANGED activation
           ELSE /\ preloadPromise' = Pending
                /\ activation' = Pending
                /\ prePc' = "activating"
    /\ UNCHANGED <<apiShape, load, logged, readFiles, rPc, rInput, rEditor,
                   rConfig, rResult, messages, fPc>>
    /\ UNCHANGED ExtLauncherFrame

\* remoteHub.activate() resolves, rejects, or never settles.
ActivateResolve ==
    /\ activation.status = "pending"
    /\ activation' = Fulfilled(0)
    /\ \E api \in ApiShapes : apiShape' = api
    /\ UNCHANGED <<installed, prePc, preloadPromise, load, logged, readFiles,
                   rPc, rInput, rEditor, rConfig, rResult, messages, fPc>>
    /\ UNCHANGED ExtLauncherFrame

ActivateReject ==
    /\ activation.status = "pending"
    /\ activation' = Rejected("ActivationError")
    /\ UNCHANGED <<installed, prePc, preloadPromise, apiShape, load, logged,
                   readFiles, rPc, rInput, rEditor, rConfig, rResult,
                   messages, fPc>>
    /\ UNCHANGED ExtLauncherFrame

ActivateHangs ==
    /\ activation.status = "pending"
    /\ activation' = [Pending EXCEPT !.status = "never"]
    /\ UNCHANGED <<installed, prePc, preloadPromise, apiShape, load, logged,
                   readFiles, rPc, rInput, rEditor, rConfig, rResult,
                   messages, fPc>>
    /\ UNCHANGED ExtLauncherFrame

\* Lines 115-121: activate() resolved.  Reading loadWorkspaceContents of an
\* undefined api throws, which the catch logs; an api without it ends the
\* preload; otherwise the contents are loaded.
PreloadActivated ==
    /\ prePc = "activating"
    /\ activation.status = "fulfilled"
    /\ IF apiShape = "apiWithLoad"
       THEN /\ load' = Pending
            /\ prePc' = "loading"
            /\ UNCHANGED <<preloadPromise, logged>>
       ELSE /\ logged' = IF apiShape = Undefined THEN logged + 1 ELSE logged
            /\ preloadPromise' = Resolve(preloadPromise, 0)
            /\ prePc' = "done"
            /\ UNCHANGED load
    /\ UNCHANGED <<installed, activation, apiShape, readFiles, rPc, rInput,
                   rEditor, rConfig, rResult, messages, fPc>>
    /\ UNCHANGED ExtLauncherFrame

\* Lines 122-124: activate() rejected: the catch logs the error and the
\* function returns.
PreloadActivateFailed ==
    /\ prePc = "activating"
    /\ activation.status = "rejected"
    /\ logged' = logged + 1
    /\ preloadPromise' = Resolve(preloadPromise, 0)
    /\ prePc' = "done"
    /\ UNCHANGED <<installed, activation, apiShape, load, readFiles, rPc,
                   rInput, rEditor, rConfig, rResult, messages, fPc>>
    /\ UNCHANGED ExtLauncherFrame

\* loadWorkspaceContents(uri) resolves, rejects, or never settles.
LoadResolve ==
    /\ load.status = "pending"
    /\ load' = Fulfilled(0)
    /\ UNCHANGED <<installed, prePc, preloadPromise, activation, apiShape,
                   logged, readFiles, rPc, rInput, rEditor, rConfig, rResult,
                   messages, fPc>>
    /\ UNCHANGED ExtLauncherFrame

LoadReject ==
    /\ load.status = "pending"
    /\ load' = Rejected("LoadError")
    /\ UNCHANGED <<installed, prePc, preloadPromise, activation, apiShape,
                   logged, readFiles, rPc, rInput, rEditor, rConfig, rResult,
                   messages, fPc>>
    /\ UNCHANGED ExtLauncherFrame

LoadHangs ==
    /\ load.status = "pending"
    /\ load' = [Pending EXCEPT !.status = "never"]
    /\ UNCHANGED <<installed, prePc, preloadPromise, activation, apiShape,
                   logged, readFiles, rPc, rInput, rEditor, rConfig, rResult,
                   messages, fPc>>
    /\ UNCHANGED ExtLauncherFrame

\* Line 119: the contents are loaded: start reading python.wasm, without
\* waiting for it, and return.
PreloadLoaded ==
    /\ prePc = "loading"
    /\ load.status = "fulfilled"
    /\ readFiles' = readFiles + 1
    /\ preloadPromise' = Resolve(preloadPromise, 0)
    /\ prePc' = "done"
    /\ UNCHANGED <<installed, activation, apiShape, load, logged, rPc, rInput,
                   rEditor, rConfig, rResult, messages, fPc>>
    /\ UNCHANGED ExtLauncherFrame

\* Lines 122-124: loadWorkspaceContents rejected: logged and swallowed.
PreloadLoadFailed ==
    /\ prePc = "loading"
    /\ load.status = "rejected"
    /\ logged' = logged + 1
    /\ preloadPromise' = Resolve(preloadPromise, 0)
    /\ prePc' = "done"
    /\ UNCHANGED <<installed, activation, apiShape, load, readFiles, rPc,
                   rInput, rEditor, rConfig, rResult, messages, fPc>>
    /\ UNCHANGED ExtLauncherFrame

\* Lines 22-23: resolveDebugConfiguration is called (the provider exists once
\* the extension is activated) and awaits the preload.
ResolveDebugConfiguration ==
    /\ prePc # "none"
    /\ rPc = "none"
    /\ \E t \in ConfigTypes, r \in ConfigRequests, n \in ConfigNames,
          p \in ConfigPrograms :
        /\ rInput' = Configuration(t, r, n, p, Undefined)
        /\ rConfig' = Configuration(t, r, n, p, Undefined)
    /\ rPc' = "awaitPreload"
    /\ UNCHANGED <<installed, prePc, preloadPromise, activation, apiShape,
                   load, logged, readFiles, rEditor, rResult, messages, fPc>>
    /\ UNCHANGED ExtLauncherFrame

\* Mutant of DefaultConfiguration: the language of the focused document is
\* not looked at.
DefaultConfiguration_AnyEditor(cfg, editor) ==
    IF Falsy(cfg.type) /\ Falsy(cfg.request) /\ Falsy(cfg.name) /\ editor # "none"
    THEN Configuration("python-web-wasm", "launch", "Launch", "${file}", "false")
    ELSE cfg

\* Lines 24-33: a configuration without type, request and name becomes a
\* launch of the focused file when the focused editor holds a python document.
DefaultConfiguration(cfg, editor) ==
    IF Falsy(cfg.type) /\ Falsy(cfg.request) /\ Falsy(cfg.name) /\ editor = "python"
    THEN Configuration("python-web-wasm", "launch", "Launch", "${file}", "false")
    ELSE cfg

\* Lines 24-40: the preload is over: default the configuration, then return
\* it if it has a program, and show the message if it has none.
ResolveProceed ==
    /\ rPc = "awaitPreload"
    /\ preloadPromise.status = "fulfilled"
    /\ \E ed \in Editors :
        /\ rEditor' = ed
        /\ rConfig' = DefaultConfiguration(rConfig, ed)
    /\ IF Falsy(rConfig'.program)
       THEN /\ messages' = messages + 1
            /\ rPc' = "message"
            /\ UNCHANGED rResult
       ELSE /\ rResult' = "config"
            /\ rPc' = "returned"
            /\ UNCHANGED messages
    /\ UNCHANGED <<installed, prePc, preloadPromise, activation, apiShape,
                   load, logged, readFiles, rInput, fPc>>
    /\ UNCHANGED ExtLauncherFrame

\* Lines 36-37: the message is dismissed: return undefined.
MessageDismissed ==
    /\ rPc = "message"
    /\ rResult' = Undefined
    /\ rPc' = "returned"
    /\ UNCHANGED <<installed, prePc, preloadPromise, activation, apiShape,
                   load, logged, readFiles, rInput, rEditor, rConfig,
                   messages, fPc>>
    /\ UNCHANGED ExtLauncherFrame

\* Line 48: createDebugAdapterDescriptor is called and awaits the preload.
CreateDebugAdapterDescriptor ==
    /\ prePc # "none"
    /\ fPc = "none"
    /\ fPc' = "awaitPreload"
    /\ UNCHANGED <<installed, prePc, preloadPromise, activation, apiShape,
                   load, logged, readFiles, rPc, rInput, rEditor, rConfig,
                   rResult, messages>>
    /\ UNCHANGED ExtLauncherFrame

\* Line 49: the preload is over: the descriptor is returned.
DescriptorProceed ==
    /\ fPc = "awaitPreload"
    /\ preloadPromise.status = "fulfilled"
    /\ fPc' = "returned"
    /\ UNCHANGED <<installed, prePc, preloadPromise, activation, apiShape,
                   load, logged, readFiles, rPc, rInput, rEditor, rConfig,
                   rResult, messages>>
    /\ UNCHANGED ExtLauncherFrame

ExtNext ==
    \/ Activate
    \/ ActivateResolve
    \/ ActivateReject
    \/ ActivateHangs
    \/ PreloadActivated
    \/ PreloadActivateFailed
    \/ LoadResolve
    \/ LoadReject
    \/ LoadHangs
    \/ PreloadLoaded
    \/ PreloadLoadFailed
    \/ ResolveDebugConfiguration
    \/ ResolveProceed
    \/ MessageDismissed
    \/ CreateDebugAdapterDescriptor
    \/ DescriptorProceed

SpecExt == Init /\ [][ExtNext]_vars

\* =================================================================== claims
RunNames == {"executeFile", "debugFile", "runRepl"}

\* The positions in requests that hold a run request.
RunRequestIndexes == {i \in DOMAIN requests : requests[i].name \in RunNames}

\* The positions in trace at which a run request was sent.
RunSendIndexes ==
    {i \in DOMAIN trace : trace[i].op = "sendRequest" /\ trace[i].arg \in RunNames}

\* The number of drivers registered before position i of trace.
RegisteredBefore(i) ==
    Cardinality({j \in 1..(i - 1) : trace[j].op = "registerCharacterDeviceDriver"})

\* The number of endpoints a mode requires.
Required(mode) == IF mode = "debug" THEN 2 ELSE 1

\* terminate() was called after the run request had been sent.
TerminatedWhileRunning ==
    \E i \in RunSendIndexes : \E j \in DOMAIN trace : i < j /\ trace[j].op = "terminate"

\* C1 (as claimed): every doRun calls an exit callback at most once, and on
\* a launcher that has been started and can take no further step onExit()
\* has settled.
C1_ExitSettlesExactlyOnce ==
    /\ exitCalls <= runCalls
    /\ (pc # "idle" /\ ~ENABLED Next) => Settled(exitPromise)

\* C2 (as claimed): once the reaction to a run request has run, onExit() is
\* settled with exactly that run request's outcome: the same exit code if it
\* resolved, the same reason if it rejected.
C2_ExitCarriesRunOutcome ==
    chain \in {"handled", "done"} => Settled(exitPromise) /\ exitPromise = runReq

\* C3: in every mode the first request sent is initialize, and a run request
\* is sent only after an initialize request that has been acknowledged.
C3_InitializeFirst ==
    /\ requests # <<>> => requests[1].name = "initialize"
    /\ \A i \in RunRequestIndexes :
          /\ initReq.status = "fulfilled"
          /\ \E j \in 1..(i - 1) : requests[j].name = "initialize"

C3_Witness ==
    /\ runCalls = 2
    /\ state.mode = "repl"
    /\ Len(requests) = 2
    /\ requests[1].name = "initialize"
    /\ requests[2].name = "runRepl"

\* C4: on the message connection of a doRun at most one run request is ever
\* sent, a running session has sent exactly one, and the port
\* createSyncConnection returned is passed to that request (as its syncPort
\* and in its transfer list) and to no other.
C4_OneRunRequest ==
    /\ Cardinality(RunRequestIndexes) <= 1
    /\ pc = "run" => Cardinality(RunRequestIndexes) = 1
    /\ \A i \in DOMAIN requests :
          IF i \in RunRequestIndexes
          THEN /\ port \in Ports
               /\ requests[i].syncPort = port
               /\ requests[i].transfer = <<port>>
          ELSE /\ requests[i].syncPort = Undefined
               /\ requests[i].transfer = <<>>

C4_Witness ==
    /\ runCalls = 2
    /\ runSends = 2
    /\ pc = "run"
    /\ state.mode = "debug"
    /\ port = "port2"
    /\ requests[2].name = "debugFile"
    /\ requests[2].syncPort = "port2"

\* C5: when the run request is sent, every driver has already been
\* registered, and they are: the console as primary and, in debug mode only,
\* the debug port as non-primary.
C5_EndpointsAtRunRequest ==
    \A i \in RunSendIndexes :
        /\ RegisteredBefore(i) = Len(drivers)
        /\ drivers =
             IF state.mode = "debug"
             THEN <<[dev |-> state.pty, isPrimary |-> TRUE],
                    [dev |-> debugPorts, isPrimary |-> FALSE]>>
             ELSE <<[dev |-> state.pty, isPrimary |-> TRUE]>>

C5_Witness ==
    /\ RunSendIndexes # {}
    /\ state.mode = "debug"
    /\ Len(drivers) = 2

\* C6: at every call of signalReady the number of drivers registered so far
\* is at least the number the mode requires.
C6_SignalReadyAfterRegistration ==
    \A i \in DOMAIN trace :
        trace[i].op = "signalReady" => RegisteredBefore(i) >= Required(state.mode)

C6_Witness ==
    /\ state.mode = "debug"
    /\ \E i \in DOMAIN trace : trace[i].op = "signalReady" /\ RegisteredBefore(i) = 2

\* C7 (as claimed): when the image fetch or the shared binary fetch has
\* failed, the session is not running, no initialize request has been sent
\* and, once doRun has given up, onExit() is rejected with BootError.
C7_BootFailureRejectsExit ==
    (config.status = "rejected" \/ wasmBytes.status = "rejected") =>
        /\ pc # "run"
        /\ \A i \in DOMAIN requests : requests[i].name # "initialize"
        /\ pc = "failed" => exitPromise = Rejected("BootError")

\* C8: a terminate() in the running state closes the channel, fails the run
\* request with TransportError if it was still in flight and leaves it alone
\* if it had settled, and does not itself settle onExit(); a settled run
\* request and a settled onExit() never change again (a later doRun has a
\* run request of its own).
C8_TerminateWhileRunning ==
    /\ [][(termCalls' = termCalls + 1 /\ pc = "run") =>
            /\ chan' = "closed"
            /\ runReq' = IF runReq.status = "pending"
                         THEN Rejected("TransportError") ELSE runReq
            /\ exitPromise' = exitPromise
            /\ exitCalls' = exitCalls]_vars
    /\ [][(Settled(runReq) /\ runCalls' = runCalls) => runReq' = runReq]_vars
    /\ [][Settled(exitPromise) => exitPromise' = exitPromise]_vars

C8_Witness ==
    /\ TerminatedWhileRunning
    /\ chan = "closed"
    /\ runReq = Rejected("TransportError")
    /\ exitPromise = Rejected("TransportError")
    /\ exitCalls = 1

\* C9: no call of terminate() settles onExit() or calls an exit callback,
\* and every call leaves the channel closed, so that a call that follows
\* another finds it closed; such a call closes nothing and fails no request.
C9_TerminateTwice ==
    /\ [][termCalls' = termCalls + 1 =>
            /\ exitPromise' = exitPromise
            /\ exitCalls' = exitCalls
            /\ ~ChannelOpen(chan')]_vars
    /\ [][(termCalls' = termCalls + 1 /\ ~ChannelOpen(chan)) =>
            /\ closeCount' = closeCount
            /\ chan' = chan
            /\ initReq' = initReq
            /\ runReq' = runReq]_vars

C9_Witness ==
    /\ termCalls = 2
    /\ closeCount = 1
    /\ trace[Len(trace)].op = "terminateConnection"
    /\ trace[Len(trace) - 1].op = "terminate"
    /\ trace[Len(trace) - 2].op = "terminateConnection"
    /\ trace[Len(trace) - 3].op = "terminate"

\* C10: terminate() never raises an error, and once the session is settled
\* (the run request has settled and the teardown has run) it writes nothing
\* to the terminal and changes nothing of the channel, the requests or
\* onExit().
C10_TerminateAfterSettled ==
    [][termCalls' = termCalls + 1 =>
        /\ termResult' = "ok"
        /\ chain = "done" =>
              /\ termWrites' = termWrites
              /\ chan' = chan
              /\ closeCount' = closeCount
              /\ initReq' = initReq
              /\ runReq' = runReq
              /\ exitPromise' = exitPromise
              /\ exitCalls' = exitCalls]_vars

C10_Witness ==
    /\ chain = "done"
    /\ termCalls >= 1
    /\ trace[Len(trace) - 1].op = "terminate"
    /\ trace[Len(trace) - 3].op \in {"exitResolveCallback", "exitRejectCallback"}
    /\ termResult = "ok"

\* The positions in trace at which an exit callback was called.
ExitCallbackIndexes ==
    {i \in DOMAIN trace : trace[i].op \in {"exitResolveCallback", "exitRejectCallback"}}

\* The positions in trace at which terminateConnection was called by the
\* launcher itself, that is not from terminate().
OwnTeardownIndexes ==
    {i \in DOMAIN trace :
        /\ trace[i].op = "terminateConnection"
        /\ (i = 1 \/ trace[i - 1].op # "terminate")}

\* C11 (as claimed): whenever an exit callback has been called, the launcher
\* had invoked terminateConnection before that call.
C11_TeardownBeforeExit ==
    \A i \in ExitCallbackIndexes : \E j \in OwnTeardownIndexes : j < i

\* C11 (amended): the launcher invokes terminateConnection only after the
\* exit callback has been called, and once the chain has run to its end both
\* have happened, whatever the outcome of the run request.
C11_TeardownAfterExit ==
    /\ \A j \in OwnTeardownIndexes : \E i \in ExitCallbackIndexes : i < j
    /\ chain = "done" =>
          /\ Settled(exitPromise)
          /\ Cardinality(OwnTeardownIndexes) = 1
          /\ Cardinality(ExitCallbackIndexes) = 1

C11_Witness ==
    /\ chain = "done"
    /\ termCalls = 0
    /\ exitPromise = Fulfilled(0)
    /\ trace[Len(trace)].op = "terminateConnection"
    /\ trace[Len(trace) - 1].op = "exitResolveCallback"

\* C12 (as claimed): once doRun has ended, by returning after the chain ran
\* or by throwing, a channel that was created has had terminateConnection
\* invoked on it.
C12_TeardownWhateverOutcome ==
    /\ chain = "done" => OwnTeardownIndexes # {}
    /\ (pc = "failed" /\ connection.status = "fulfilled") =>
          \E i \in DOMAIN trace : trace[i].op = "terminateConnection"

\* C13 (as claimed): no request is sent twice, and once doRun has given up
\* because initialize was rejected, onExit() is rejected with that reason.
C13_InitializeFailureRejectsExit ==
    /\ Cardinality({i \in DOMAIN requests : requests[i].name = "initialize"}) <= 1
    /\ (pc = "failed" /\ initReq.status = "rejected") =>
          exitPromise = Rejected(initReq.reason)

\* terminate() was called at position i of trace while doRun was booting:
\* the boot tasks had been started and Promise.all had not been passed.
TerminateWhileBooting(i) ==
    /\ trace[i].op = "terminate"
    /\ \E j \in 1..(i - 1) : trace[j].op = "createMessageConnection"
    /\ \A j \in 1..(i - 1) : trace[j].op # "listen"

\* C14 (as claimed): after a terminate() during boot no endpoint is
\* registered, no run request is sent and no initialize request goes out on
\* the channel (one that fails at once on the closed channel is not counted).
C14_TerminateCancelsBoot ==
    \A i \in DOMAIN trace :
        TerminateWhileBooting(i) =>
            /\ \A j \in (i + 1)..Len(trace) :
                  /\ trace[j].op # "registerCharacterDeviceDriver"
                  /\ ~(trace[j].op = "sendRequest" /\ trace[j].arg \in RunNames)
            /\ initReq.status = "none" \/ initReq = Rejected("TransportError")

\* The positions in trace at which signalReady was called.
SignalReadyIndexes == {i \in DOMAIN trace : trace[i].op = "signalReady"}

\* C17: the three boot tasks are started in one step, and whenever an
\* initialize request has been sent all three had been fulfilled.
C17_InitializeAfterAllBootTasks ==
    /\ pc # "idle" =>
          /\ config.status # "none"
          /\ wasmBytes.status # "none"
          /\ connection.status # "none"
    /\ pc = "idle" =>
          /\ config.status = "none"
          /\ wasmBytes.status = "none"
          /\ connection.status = "none"
    /\ (\E i \in DOMAIN requests : requests[i].name = "initialize") =>
          /\ config.status = "fulfilled"
          /\ wasmBytes.status = "fulfilled"
          /\ connection.status = "fulfilled"

C17_Witness ==
    /\ pc = "init"
    /\ requests = <<InitializeRequest>>
    /\ initReq.status = "pending"
    /\ config.status = "fulfilled"
    /\ wasmBytes.status = "fulfilled"
    /\ connection.status = "fulfilled"

\* C18: in a session signalReady is called at most once; in a running
\* session it has been called exactly once, and that call precedes the
\* sending of the run request.
C18_SignalReadyOnceBeforeRun ==
    /\ Cardinality(SignalReadyIndexes) <= 1
    /\ pc = "run" => Cardinality(SignalReadyIndexes) = 1
    /\ \A i \in RunSendIndexes : \E j \in SignalReadyIndexes : j < i

C18_Witness ==
    /\ runCalls = 2
    /\ pc = "run"
    /\ state.mode = "debug"
    /\ Cardinality(SignalReadyIndexes) = 1
    /\ RunSendIndexes # {}

\* C19: the run request is the one of the mode: run sends executeFile with
\* the port and the program and nothing else; debug sends debugFile with the
\* port, the program, the uri of the debug endpoint and the terminator; repl
\* sends runRepl with the port and no file.
C19_RunRequestByMode ==
    \A i \in RunRequestIndexes :
        LET r == requests[i] IN
        /\ r.syncPort = port
        /\ state.mode = "run" =>
              /\ r.name = "executeFile"
              /\ r.file = state.program /\ r.file \in Programs
              /\ r.uri = Undefined /\ r.terminator = Undefined
        /\ state.mode = "debug" =>
              /\ r.name = "debugFile"
              /\ r.file = state.program /\ r.file \in Programs
              /\ r.uri = "uri-of-debugPorts" /\ debugPorts \in DebugPortSet
              /\ r.terminator = terminator /\ r.terminator \in Terminators
        /\ state.mode = "repl" =>
              /\ r.name = "runRepl"
              /\ r.file = Undefined
              /\ r.uri = Undefined /\ r.terminator = Undefined

C19_Witness ==
    /\ state.mode = "debug"
    /\ Len(requests) = 2
    /\ requests[2].name = "debugFile"
    /\ requests[2].file = "lib.py"
    /\ requests[2].terminator = "(Pdb)"

\* C20: as long as the launcher has sent no run request, also after
\* terminate(), onExit() is pending and no exit callback has been called;
\* and onExit() is settled, and an exit callback called, only by the chain
\* reacting to a run request that was sent and has settled, never by
\* terminate().
C20_ExitOnlyFromRunRequest ==
    /\ [](runSends = 0 => exitPromise = Pending /\ exitCalls = 0)
    /\ [](RunRequestIndexes = {} => ExitCallbackIndexes = {})
    /\ [][(exitPromise' # exitPromise \/ exitCalls' # exitCalls) =>
            /\ RunRequestIndexes # {}
            /\ Settled(runReq)
            /\ chain = "attached" /\ chain' = "handled"
            /\ termCalls' = termCalls]_vars

C20_Witness ==
    /\ termCalls >= 1
    /\ pc = "failed"
    /\ runSends = 0
    /\ exitPromise = Pending

\* C15 (as claimed): the preload promise is never rejected, and when nothing
\* more can happen neither resolveDebugConfiguration nor
\* createDebugAdapterDescriptor is still waiting for it (for the outcomes the
\* claim lists: a hanging activate() is left aside).
C15_PreloadNeverBlocks ==
    /\ preloadPromise.status # "rejected"
    /\ (~ENABLED ExtNext /\ activation.status # "never") =>
          rPc # "awaitPreload" /\ fPc # "awaitPreload"

\* C16: resolveDebugConfiguration defaults a configuration without type,
\* request and name to a launch of ${file} exactly when the focused editor
\* holds a python document, leaves every other configuration as it was, and
\* then returns undefined after one message if the configuration has no
\* program and the configuration, without a message, if it has one.
C16_ResolutionGate ==
    LET bare == /\ rInput.type \in {Undefined, ""}
                /\ rInput.request \in {Undefined, ""}
                /\ rInput.name \in {Undefined, ""}
        defaulted == bare /\ rEditor = "python"
        noProgram == rConfig.program \in {Undefined, ""}
    IN
    /\ rPc \in {"message", "returned"} =>
          /\ defaulted =>
                rConfig = Configuration("python-web-wasm", "launch", "Launch",
                                        "${file}", "false")
          /\ ~defaulted => rConfig = rInput
    /\ rPc = "message" => noProgram /\ messages = 1 /\ rResult = "none"
    /\ rPc = "returned" =>
          /\ noProgram => rResult = Undefined /\ messages = 1
          /\ ~noProgram => rResult = "config" /\ messages = 0

C16_Witness ==
    /\ rPc = "returned"
    /\ rInput = Configuration(Undefined, Undefined, Undefined, "", Undefined)
    /\ rEditor = "python"
    /\ rResult = "config"
    /\ rConfig.program = "${file}"
    /\ logged = 1

====
